---- MODULE Spec2Model ----
(***************************************************************************)
(* A model of supa-fastapi: the storage client (supa/storage.py), the      *)
(* facade's URL and header construction (supa/client.py) and the database  *)
(* client manager (supa/managers.py).                                      *)
(*                                                                         *)
(* Representation of Python values                                         *)
(*   str (URLs, paths, ids)  a sequence of tokens: "/" or a maximal run of *)
(*                           characters other than "/"; "" is << >>.       *)
(*   str (timestamps)        a sequence of one-character strings.          *)
(*   Optional[x]             [some |-> BOOLEAN, v |-> x].                  *)
(*   a response body         [kind |-> "text" | "obj" | "arr", o, a].      *)
(*   what a call produces    [kind |-> "return" | "raise", exc, val].      *)
(***************************************************************************)
EXTENDS Integers, Sequences, FiniteSets, TLC

VARIABLES
    py311,      \* the interpreter is Python >= 3.11 (datetime.fromisoformat differs)
    url,        \* StorageClient.url, as the facade passed it
    base_url,   \* StorageClient._client.base_url
    headers,    \* StorageClient._client.headers
    held,       \* the Bucket handle the caller holds, if any
    call,       \* the last operation called: its arguments, request, response, outcome
    auth,       \* DatabaseClientManager: the shared client's Authorization header
    pc,         \* DatabaseClientManager: each task's position around its with-block
    used,       \* DatabaseClientManager: the Authorization header of each task's last request
    blocks      \* DatabaseClientManager: with-blocks each task has entered

storageVars == <<py311, url, base_url, headers, held, call>>
dbVars == <<auth, pc, used, blocks>>
vars == <<py311, url, base_url, headers, held, call, auth, pc, used, blocks>>

(***************************************************************************)
(* Bounds                                                                  *)
(***************************************************************************)
MaxBlocks == 2

(***************************************************************************)
(* Python str as token sequences                                           *)
(***************************************************************************)
\* s + t (and f-string interpolation): adjacent slash-free runs merge into one token
Cat(s, t) ==
    IF s = << >> THEN t
    ELSE IF t = << >> THEN s
    ELSE IF s[Len(s)] # "/" /\ t[1] # "/"
         THEN SubSeq(s, 1, Len(s) - 1) \o <<s[Len(s)] \o t[1]>> \o Tail(t)
         ELSE s \o t

\* s.rsplit("/", maxsplit=1)[-1]
LastSegment(s) ==
    IF s = << >> \/ s[Len(s)] = "/" THEN << >> ELSE <<s[Len(s)]>>

None == [some |-> FALSE, v |-> << >>]
Some(x) == [some |-> TRUE, v |-> x]

\* Python's `a or b` on Optional[str]: None and "" are falsy
OrStr(a, b) == IF a.some /\ a.v # << >> THEN a.v ELSE b

\* str(True) / str(False)
StrBool(b) == IF b THEN <<"True">> ELSE <<"False">>

(***************************************************************************)
(* Outcomes of a call                                                      *)
(***************************************************************************)
NoVal == [none |-> TRUE]
Return(v) == [kind |-> "return", exc |-> "", val |-> v]
Raise(e, v) == [kind |-> "raise", exc |-> e, val |-> v]

(***************************************************************************)
(* datetime.fromisoformat                                                  *)
(***************************************************************************)
DigitVal ==
    [c \in {"0", "1", "2", "3", "4", "5", "6", "7", "8", "9"} |->
        CASE c = "0" -> 0 [] c = "1" -> 1 [] c = "2" -> 2 [] c = "3" -> 3
          [] c = "4" -> 4 [] c = "5" -> 5 [] c = "6" -> 6 [] c = "7" -> 7
          [] c = "8" -> 8 [] c = "9" -> 9]

IsDigits(s, i, n) == \A k \in i..(i + n - 1) : s[k] \in DOMAIN DigitVal

RECURSIVE Num(_, _, _)
Num(s, i, n) ==
    IF n = 0 THEN 0 ELSE Num(s, i, n - 1) * 10 + DigitVal[s[i + n - 1]]

IsLeap(y) == (y % 4 = 0 /\ y % 100 # 0) \/ y % 400 = 0

DaysIn(y, m) ==
    IF m = 2 THEN (IF IsLeap(y) THEN 29 ELSE 28)
    ELSE IF m \in {4, 6, 9, 11} THEN 30 ELSE 31

DateShape(s) ==
    /\ Len(s) >= 10
    /\ IsDigits(s, 1, 4) /\ s[5] = "-" /\ IsDigits(s, 6, 2) /\ s[8] = "-"
    /\ IsDigits(s, 9, 2)

TimeShape(s) ==
    /\ Len(s) >= 19
    /\ s[11] = "T"
    /\ IsDigits(s, 12, 2) /\ s[14] = ":" /\ IsDigits(s, 15, 2) /\ s[17] = ":"
    /\ IsDigits(s, 18, 2)

DateValid(s) ==
    /\ DateShape(s)
    /\ Num(s, 1, 4) >= 1
    /\ Num(s, 6, 2) \in 1..12
    /\ Num(s, 9, 2) \in 1..DaysIn(Num(s, 1, 4), Num(s, 6, 2))

TimeValid(s) ==
    /\ TimeShape(s)
    /\ Num(s, 12, 2) \in 0..23 /\ Num(s, 15, 2) \in 0..59 /\ Num(s, 18, 2) \in 0..59

DateTime(y, mo, d, h, mi, sec, tz) ==
    [year |-> y, month |-> mo, day |-> d, hour |-> h, minute |-> mi,
     second |-> sec, tzinfo |-> tz]

\* The ISO-8601 forms the service and the inputs below use:
\* YYYY-MM-DD, YYYY-MM-DDTHH:MM:SS and YYYY-MM-DDTHH:MM:SSZ.
IsIso(s) ==
    \/ Len(s) = 10 /\ DateValid(s)
    \/ Len(s) = 19 /\ DateValid(s) /\ TimeValid(s)
    \/ Len(s) = 20 /\ DateValid(s) /\ TimeValid(s) /\ s[20] = "Z"

\* the standard parse of a valid ISO-8601 string
IsoParse(s) ==
    IF Len(s) = 10
    THEN DateTime(Num(s, 1, 4), Num(s, 6, 2), Num(s, 9, 2), 0, 0, 0, "naive")
    ELSE DateTime(Num(s, 1, 4), Num(s, 6, 2), Num(s, 9, 2),
                  Num(s, 12, 2), Num(s, 15, 2), Num(s, 18, 2),
                  IF Len(s) = 20 THEN "UTC" ELSE "naive")

\* datetime.fromisoformat(x): x is [str |-> chars] or [dt |-> a datetime].
\* A non-str argument raises TypeError; before Python 3.11 the "Z" suffix is
\* rejected with ValueError.
FromIsoFormat(p311, x) ==
    IF "str" \notin DOMAIN x THEN Raise("TypeError", NoVal)
    ELSE IF ~IsIso(x.str) THEN Raise("ValueError", NoVal)
    ELSE IF Len(x.str) = 20 /\ ~p311 THEN Raise("ValueError", NoVal)
    ELSE Return([dt |-> IsoParse(x.str)])

(***************************************************************************)
(* str(int)                                                                *)
(***************************************************************************)
DigitChar == <<"0", "1", "2", "3", "4", "5", "6", "7", "8", "9">>

RECURSIVE StrNat(_)
StrNat(n) ==
    IF n < 10 THEN DigitChar[n + 1]
    ELSE StrNat(n \div 10) \o DigitChar[(n % 10) + 1]

StrInt(n) == IF n < 0 THEN <<"-" \o StrNat(0 - n)>> ELSE <<StrNat(n)>>

(***************************************************************************)
(* dicts                                                                   *)
(***************************************************************************)
EmptyDict == << >>

\* {**d, **e}: the keys of both, e's value where both have the key
DictMerge(d, e) ==
    [k \in (DOMAIN d) \cup (DOMAIN e) |-> IF k \in DOMAIN e THEN e[k] ELSE d[k]]

(***************************************************************************)
(* The dataclasses File and Bucket                                         *)
(***************************************************************************)
FileFrozen == TRUE
BucketFrozen == FALSE

FileFields ==
    {"name", "bucket_id", "owner", "id", "created_at", "updated_at",
     "last_accessed_at", "metadata"}
BucketFields == {"id", "name", "owner", "public", "created_at", "updated_at"}

\* __post_init__: for each timestamp field in turn, self.f = datetime.fromisoformat(self.f).
\* The right-hand side is evaluated first; the assignment then goes through the
\* dataclass's __setattr__, which raises on a frozen dataclass.
RECURSIVE PostInit(_, _, _, _)
PostInit(p311, frozen, obj, fs) ==
    IF fs = << >> THEN Return(obj)
    ELSE LET f == Head(fs)
             p == FromIsoFormat(p311, obj[f])
         IN  IF p.kind = "raise" THEN p
             ELSE IF frozen THEN Raise("FrozenInstanceError", NoVal)
             ELSE PostInit(p311, frozen, [obj EXCEPT ![f] = p.val], Tail(fs))

\* File(**kw): the generated __init__ takes exactly the fields, then __post_init__
FileNew(p311, kw) ==
    IF DOMAIN kw # FileFields THEN Raise("TypeError", NoVal)
    ELSE LET r == PostInit(p311, FileFrozen, kw,
                           <<"created_at", "updated_at", "last_accessed_at">>)
         IN  IF r.kind = "raise" THEN r ELSE Return([file |-> r.val])

\* Bucket(**kw, _client=client)
BucketNew(p311, kw, client) ==
    IF DOMAIN kw # BucketFields THEN Raise("TypeError", NoVal)
    ELSE LET r == PostInit(p311, BucketFrozen,
                           [k \in BucketFields \cup {"client"} |->
                               IF k = "client" THEN client ELSE kw[k]],
                           <<"created_at", "updated_at">>)
         IN  IF r.kind = "raise" THEN r ELSE Return([bucket |-> r.val])

\* [Ctor(**i) for i in items]: the first construction that raises ends the comprehension
RECURSIVE FileList(_, _)
FileList(p311, items) ==
    IF items = << >> THEN Return([list |-> << >>])
    ELSE LET h == FileNew(p311, Head(items))
             t == FileList(p311, Tail(items))
         IN  IF h.kind = "raise" THEN h
             ELSE IF t.kind = "raise" THEN t
             ELSE Return([list |-> <<h.val.file>> \o t.val.list])

RECURSIVE BucketList(_, _, _)
BucketList(p311, items, client) ==
    IF items = << >> THEN Return([list |-> << >>])
    ELSE LET h == BucketNew(p311, Head(items), client)
             t == BucketList(p311, Tail(items), client)
         IN  IF h.kind = "raise" THEN h
             ELSE IF t.kind = "raise" THEN t
             ELSE Return([list |-> <<h.val.bucket>> \o t.val.list])

(***************************************************************************)
(* Requests and responses                                                  *)
(***************************************************************************)
NoJson == [none |-> TRUE]
NoFiles == [none |-> TRUE]

ApplicationJson == <<"application", "/", "json">>
MultipartFormData == <<"multipart", "/", "form-data; boundary=x">>

\* the Content-Type the session derives from the content it encodes
AutoHeaders(json, files) ==
    IF "body" \in DOMAIN json THEN ("Content-Type" :> ApplicationJson)
    ELSE IF "file" \in DOMAIN files THEN ("Content-Type" :> MultipartFormData)
    ELSE EmptyDict

\* self._client.<method>(path, json=, headers=, files=): the request sent carries the
\* session's headers overlaid by the headers= argument; the derived Content-Type
\* is set only where neither names one
Request(method, path, json, client, passed, files) ==
    [method |-> method, path |-> path, json |-> json,
     headers |-> DictMerge(AutoHeaders(json, files), DictMerge(client, passed)),
     files |-> files]

NoRequest ==
    [method |-> "", path |-> << >>, json |-> NoJson, headers |-> EmptyDict,
     files |-> NoFiles]

TextBody == [kind |-> "text", o |-> EmptyDict, a |-> << >>]
ObjBody(o) == [kind |-> "obj", o |-> o, a |-> << >>]
ArrBody(a) == [kind |-> "arr", o |-> EmptyDict, a |-> a]

Response(status, body) == [status |-> status, body |-> body]
NoResponse == Response(0, TextBody)

\* Response.raise_for_status() raises HTTPStatusError (an HTTPError) unless 2xx
RaisesForStatus(r) == r.status \notin 200..299

\* Response.json(): a body that is not JSON raises JSONDecodeError
Json(r) ==
    IF r.body.kind = "text" THEN Raise("JSONDecodeError", NoVal)
    ELSE Return([json |-> r.body])

_handle_response(r) ==
    IF RaisesForStatus(r)
    THEN LET j == Json(r)
         IN  IF j.kind = "raise" THEN j ELSE Raise("StorageError", j.val)
    ELSE Return([response |-> r])

\* return r.json() after _handle_response
JsonResult(r) ==
    LET h == _handle_response(r)
    IN  IF h.kind = "raise" THEN h ELSE Json(r)

\* return [File(**i) for i in r.json()] after _handle_response; iterating a dict
\* yields its keys, and File(**"key") raises TypeError
FilesResult(p311, r) ==
    LET h == _handle_response(r)
        j == Json(r)
    IN  IF h.kind = "raise" THEN h
        ELSE IF j.kind = "raise" THEN j
        ELSE IF j.val.json.kind = "arr" THEN FileList(p311, j.val.json.a)
        ELSE IF DOMAIN j.val.json.o = {} THEN Return([list |-> << >>])
        ELSE Raise("TypeError", NoVal)

(***************************************************************************)
(* The facade (supa/client.py)                                             *)
(***************************************************************************)
RECURSIVE Fmt(_)
\* an f-string: its literal and interpolated parts, concatenated
Fmt(parts) == IF parts = << >> THEN << >> ELSE Cat(Head(parts), Fmt(Tail(parts)))

storage_url(supabase_url) == Fmt(<<supabase_url, <<"/", "storage", "/", "v1">>>>)

Bearer(token) == Fmt(<<<<"Bearer ">>, token>>)

_get_headers(self_key, key) ==
    [apiKey |-> self_key, Authorization |-> Bearer(OrStr(key, self_key))]

\* AsyncClient(base_url=...): httpx keeps the base URL with a trailing slash
\* (BaseClient._enforce_trailing_slash), and base_url reads that back
EnforceTrailingSlash(u) ==
    IF u # << >> /\ u[Len(u)] = "/" THEN u ELSE Cat(u, <<"/">>)

Session == "session"

(***************************************************************************)
(* StorageClient and Bucket operations: the request each sends and what it *)
(* produces from the response r.  b is the Bucket (self), client the       *)
(* session's headers.                                                      *)
(***************************************************************************)
Result(req, out) == [req |-> req, out |-> out]

_delete_bucket(client, id, r) ==
    Result(Request("DELETE", Fmt(<<<<"/", "bucket", "/">>, id>>), NoJson, client,
                   EmptyDict, NoFiles),
           JsonResult(r))

_empty_bucket(client, id, r) ==
    Result(Request("POST", Fmt(<<<<"/", "bucket", "/">>, id, <<"/", "empty">>>>),
                   [body |-> EmptyDict], client, EmptyDict, NoFiles),
           JsonResult(r))

_download_content(client, fp, r) ==
    Result(Request("GET", Fmt(<<<<"/", "object", "/", "authenticated", "/">>, fp>>),
                   NoJson, client, EmptyDict, NoFiles),
           LET h == _handle_response(r)
           IN  IF h.kind = "raise" THEN h ELSE Return([content |-> r.body]))

get_public_url(b, baseUrl, path) ==
    Return([str |-> Fmt(<<baseUrl, <<"/", "object", "/", "public", "/">>, path>>)])

create_signed_url(b, client, path, expires_in, r) ==
    Result(Request("POST", Fmt(<<<<"/", "object", "/", "sign", "/">>, b.name, <<"/">>, path>>),
                   [body |-> [expiresIn |-> StrInt(expires_in)]], client, EmptyDict,
                   NoFiles),
           LET j == JsonResult(r)
           IN  IF j.kind = "raise" THEN j
               ELSE IF j.val.json.kind # "obj" THEN Raise("TypeError", NoVal)
               ELSE IF "signedURL" \notin DOMAIN j.val.json.o THEN Raise("KeyError", NoVal)
               ELSE Return([str |-> j.val.json.o.signedURL]))

delete(b, client, r) == _delete_bucket(client, b.id, r)

empty(b, client, r) == _empty_bucket(client, b.id, r)

move(b, client, from_path, to_path, r) ==
    LET json == [bucketId |-> b.id, sourceKey |-> from_path, destinationKey |-> to_path]
    IN  Result(Request("POST", <<"/", "object", "/", "move">>, [body |-> json], client,
                       EmptyDict, NoFiles),
               JsonResult(r))

\* copy posting to an endpoint of its own
copyToCopyEndpoint(b, client, file_path, target, r) ==
    LET json == [bucketId |-> b.id, sourceKey |-> file_path, destinationKey |-> target]
    IN  Result(Request("POST", <<"/", "object", "/", "copy">>, [body |-> json], client,
                       EmptyDict, NoFiles),
               JsonResult(r))

copy(b, client, file_path, target, r) ==
    LET json == [bucketId |-> b.id, sourceKey |-> file_path, destinationKey |-> target]
    IN  Result(Request("POST", <<"/", "object", "/", "move">>, [body |-> json], client,
                       EmptyDict, NoFiles),
               JsonResult(r))

\* remove addressing the object by the bucket's id
removeById(b, client, path, r) ==
    Result(Request("DELETE", Fmt(<<<<"/", "object", "/">>, b.id, <<"/">>, path>>),
                   NoJson, client, EmptyDict, NoFiles),
           JsonResult(r))

remove(b, client, path, r) ==
    Result(Request("DELETE", Fmt(<<<<"/", "object", "/">>, b.name, <<"/">>, path>>),
                   NoJson, client, EmptyDict, NoFiles),
           JsonResult(r))

bulk_remove(p311, b, client, paths, r) ==
    Result(Request("DELETE", Fmt(<<<<"/", "object", "/">>, b.name>>),
                   [body |-> [prefixes |-> paths]], client, EmptyDict, NoFiles),
           FilesResult(p311, r))

DEFAULT_SEARCH_OPTIONS ==
    [limit |-> 100, offset |-> 0, sortBy |-> [column |-> <<"name">>, order |-> <<"asc">>]]

\* the merge with the defaults applied last, so that they win over the caller's options
ListBodyDefaultsLast(path, options) ==
    DictMerge(DictMerge([prefix |-> OrStr(path, << >>)], options), DEFAULT_SEARCH_OPTIONS)

\* {"prefix": path or "", **DEFAULT_SEARCH_OPTIONS, **options}
ListBody(path, options) ==
    DictMerge(DictMerge([prefix |-> OrStr(path, << >>)], DEFAULT_SEARCH_OPTIONS), options)

list(p311, b, client, path, options, r) ==
    LET json == ListBody(path, options)
        hdrs == DictMerge(client, "Content-Type" :> ApplicationJson)
    IN  Result(Request("POST", Fmt(<<<<"/", "object", "/", "list", "/">>, b.name>>),
                       [body |-> json], client, hdrs, NoFiles),
               FilesResult(p311, r))

download(b, client, path, r) ==
    _download_content(client, Fmt(<<b.name, <<"/">>, path>>), r)

\* The headers dict built on line 267 is read only for the part's content type:
\* the post is given files= and no headers=.
upload(b, client, path, file, cache_control, mime_type, upsert, r) ==
    LET hdrs == DictMerge(client,
                          [cacheControl |-> cache_control, contentType |-> mime_type,
                           upsert |-> StrBool(upsert)] @@ ("Content-Type" :> mime_type))
        filename == LastSegment(path)
        files == [file |-> <<filename, file, hdrs["contentType"]>>]
    IN  Result(Request("POST", Fmt(<<<<"/", "object", "/">>, b.name, <<"/">>, path>>),
                       NoJson, client, EmptyDict, files),
               JsonResult(r))

list_buckets(p311, client, r) ==
    Result(Request("GET", <<"/", "bucket">>, NoJson, client, EmptyDict, NoFiles),
           LET h == _handle_response(r)
               data == Json(r)
           IN  IF h.kind = "raise" THEN h
               ELSE IF data.kind = "raise" THEN data
               ELSE IF data.val.json.kind = "arr"
                    THEN BucketList(p311, data.val.json.a, Session)
               ELSE IF DOMAIN data.val.json.o = {} THEN Return([list |-> << >>])
               ELSE Raise("TypeError", NoVal))

get_bucket(p311, client, id, r) ==
    Result(Request("GET", Fmt(<<<<"/", "bucket", "/">>, id>>), NoJson, client, EmptyDict,
                   NoFiles),
           LET h == _handle_response(r)
               data == Json(r)
           IN  IF h.kind = "raise" THEN h
               ELSE IF data.kind = "raise" THEN data
               ELSE IF data.val.json.kind # "obj" THEN Raise("TypeError", NoVal)
               ELSE BucketNew(p311, data.val.json.o, Session))

create_bucket(p311, client, id, name, public, now, r) ==
    Result(Request("POST", <<"/", "bucket">>,
                   [body |-> [id |-> id, name |-> OrStr(name, id), public |-> public]],
                   client, EmptyDict, NoFiles),
           LET h == _handle_response(r)
           IN  IF h.kind = "raise" THEN h
               ELSE BucketNew(p311,
                              [id |-> id, name |-> OrStr(name, id), owner |-> None,
                               public |-> public, created_at |-> [dt |-> now],
                               updated_at |-> [dt |-> now]],
                              Session))

empty_bucket(client, id, r) == _empty_bucket(client, id, r)

delete_bucket(client, id, r) == _delete_bucket(client, id, r)

(***************************************************************************)
(* Inputs                                                                  *)
(***************************************************************************)
SupabaseUrls ==
    {<<"https:", "/", "/", "proj.supabase.co">>, <<"http:", "/", "/", "localhost:8000">>}
Key == <<"anon">>
AccessTokens == {Some(<<"jwtA">>)}

Ids == {<<"b1">>, <<"docs">>}
Names == {None, Some(<<"photos">>)}
P1 == <<"a.txt">>
P2 == <<"folder", "/", "x.png">>
P3 == <<"c.txt">>
Paths == {P1, P2}
PathLists == {<<P1>>, <<P1, P2, P3>>}
OptPaths == {None, Some(<<"folder">>)}
Expiries == {60, 3600}
Files == {<<"bytes">>}
CacheControls == {3600, 60}
MimeTypes == {<<"text", "/", "plain;charset=UTF-8">>, <<"image", "/", "png">>}
SearchOptions ==
    {EmptyDict,
     [limit |-> 10],
     [offset |-> 5, sortBy |-> [column |-> <<"created_at">>, order |-> <<"desc">>]],
     [prefix |-> <<"other">>, search |-> <<"cat">>]}
Nows == {DateTime(2026, 11, 3, 8, 30, 0, "naive")}

\* "2021-01-02T03:04:05", "2024-02-29", "2021-01-02T03:04:05Z", "2021-13-02T03:04:05"
T1 == <<"2", "0", "2", "1", "-", "0", "1", "-", "0", "2", "T",
        "0", "3", ":", "0", "4", ":", "0", "5">>
T2 == <<"2", "0", "2", "4", "-", "0", "2", "-", "2", "9">>
TZ == T1 \o <<"Z">>
TBad == <<"2", "0", "2", "1", "-", "1", "3", "-", "0", "2", "T",
          "0", "3", ":", "0", "4", ":", "0", "5">>

BucketKw(id, name, c, u) ==
    [id |-> id, name |-> name, owner |-> <<"u1">>, public |-> FALSE,
     created_at |-> [str |-> c], updated_at |-> [str |-> u]]
J1 == BucketKw(<<"b1">>, <<"photos">>, T1, T2)
J2 == BucketKw(<<"docs">>, <<"docs">>, TZ, TZ)
J3 == BucketKw(<<"b1">>, <<"photos">>, T1, TBad)

FileKw(name, c, u, a) ==
    [name |-> name, bucket_id |-> <<"b1">>, owner |-> <<"u1">>, id |-> Cat(<<"f-">>, name),
     created_at |-> [str |-> c], updated_at |-> [str |-> u],
     last_accessed_at |-> [str |-> a], metadata |-> [size |-> <<"3">>]]
F1 == FileKw(P1, T1, T1, T2)
F2 == FileKw(P3, T2, T1, T1)
F3 == FileKw(P1, TBad, T1, T1)

ErrorBody == ObjBody([statusCode |-> <<"404">>, message |-> <<"not found">>])

Responses ==
    {Response(200, TextBody),
     Response(200, ObjBody(EmptyDict)),
     Response(200, ObjBody(J1)),
     Response(200, ObjBody(J2)),
     Response(200, ObjBody([signedURL |-> <<"/", "object", "/", "sign", "/", "t">>])),
     Response(200, ArrBody(<< >>)),
     Response(200, ArrBody(<<F1, F2>>)),
     Response(200, ArrBody(<<J1, J2>>)),
     Response(404, ErrorBody),
     Response(502, TextBody)}

(***************************************************************************)
(* The storage client as a state machine                                   *)
(***************************************************************************)
NoCall ==
    [op |-> "", args |-> NoVal, bucket |-> None, req |-> NoRequest,
     resp |-> NoResponse, out |-> Return(NoVal)]

\* DatabaseClientManager.__init__
DbInit ==
    /\ auth = Bearer(Key)
    /\ pc = [t \in {"t1", "t2"} |-> "out"]
    /\ used = [t \in {"t1", "t2"} |-> None]
    /\ blocks = [t \in {"t1", "t2"} |-> 0]

\* Supa.storage(access_token): StorageClient(self.storage_url, self._get_headers(access_token))
Init ==
    /\ py311 \in BOOLEAN
    /\ \E su \in SupabaseUrls : url = storage_url(su)
    /\ base_url = EnforceTrailingSlash(url)
    /\ \E tok \in AccessTokens : headers = _get_headers(Key, tok)
    /\ held = None
    /\ call = NoCall
    /\ DbInit

\* a call that sends one request and gets response r
Net(op, args, b, res, r) ==
    /\ call' = [op |-> op, args |-> args, bucket |-> b, req |-> res.req, resp |-> r,
                out |-> res.out]
    /\ UNCHANGED <<py311, url, base_url, headers, dbVars>>

\* a call that sends nothing
Local(op, args, b, out) ==
    /\ call' = [op |-> op, args |-> args, bucket |-> b, req |-> NoRequest,
                resp |-> NoResponse, out |-> out]
    /\ UNCHANGED <<py311, url, base_url, headers, dbVars>>

Hold(out) ==
    held' = IF out.kind = "return" THEN Some(out.val.bucket) ELSE held

NewFile ==
    \E kw \in {F1, F2, F3, [name |-> P1]} :
        /\ Local("File", kw, None, FileNew(py311, kw))
        /\ UNCHANGED held

NewBucket ==
    \E kw \in {J1, J2, J3, [id |-> <<"b1">>, name |-> <<"photos">>]} :
        /\ Local("Bucket", kw, None, BucketNew(py311, kw, Session))
        /\ Hold(BucketNew(py311, kw, Session))

ListBuckets ==
    \E r \in Responses :
        /\ Net("list_buckets", NoVal, None, list_buckets(py311, headers, r), r)
        /\ UNCHANGED held

GetBucket ==
    \E id \in Ids, r \in Responses :
        /\ Net("get_bucket", [id |-> id], None, get_bucket(py311, headers, id, r), r)
        /\ Hold(get_bucket(py311, headers, id, r).out)

CreateBucket ==
    \E id \in Ids, name \in Names, public \in BOOLEAN, now \in Nows, r \in Responses :
        /\ Net("create_bucket", [id |-> id, name |-> name, public |-> public, now |-> now],
               None, create_bucket(py311, headers, id, name, public, now, r), r)
        /\ Hold(create_bucket(py311, headers, id, name, public, now, r).out)

EmptyBucket ==
    \E id \in Ids, r \in Responses :
        /\ Net("empty_bucket", [id |-> id], None, empty_bucket(headers, id, r), r)
        /\ UNCHANGED held

DeleteBucket ==
    \E id \in Ids, r \in Responses :
        /\ Net("delete_bucket", [id |-> id], None, delete_bucket(headers, id, r), r)
        /\ UNCHANGED held

GetPublicUrl ==
    \E path \in Paths :
        /\ held.some
        /\ Local("get_public_url", [path |-> path], held,
                 get_public_url(held.v, base_url, path))
        /\ UNCHANGED held

CreateSignedUrl ==
    \E path \in Paths, expires_in \in Expiries, r \in Responses :
        /\ held.some
        /\ Net("create_signed_url", [path |-> path, expires_in |-> expires_in], held,
               create_signed_url(held.v, headers, path, expires_in, r), r)
        /\ UNCHANGED held

Delete ==
    \E r \in Responses :
        /\ held.some
        /\ Net("delete", NoVal, held, delete(held.v, headers, r), r)
        /\ UNCHANGED held

Empty ==
    \E r \in Responses :
        /\ held.some
        /\ Net("empty", NoVal, held, empty(held.v, headers, r), r)
        /\ UNCHANGED held

Move ==
    \E from_path \in Paths, to_path \in Paths, r \in Responses :
        /\ held.some
        /\ Net("move", [source |-> from_path, target |-> to_path], held,
               move(held.v, headers, from_path, to_path, r), r)
        /\ UNCHANGED held

Copy ==
    \E file_path \in Paths, target \in Paths, r \in Responses :
        /\ held.some
        /\ Net("copy", [source |-> file_path, target |-> target], held,
               copy(held.v, headers, file_path, target, r), r)
        /\ UNCHANGED held

Remove ==
    \E path \in Paths, r \in Responses :
        /\ held.some
        /\ Net("remove", [path |-> path], held, remove(held.v, headers, path, r), r)
        /\ UNCHANGED held

BulkRemove ==
    \E paths \in PathLists, r \in Responses :
        /\ held.some
        /\ Net("bulk_remove", [paths |-> paths], held,
               bulk_remove(py311, held.v, headers, paths, r), r)
        /\ UNCHANGED held

List ==
    \E path \in OptPaths, options \in SearchOptions, r \in Responses :
        /\ held.some
        /\ Net("list", [path |-> path, options |-> options], held,
               list(py311, held.v, headers, path, options, r), r)
        /\ UNCHANGED held

Download ==
    \E path \in Paths, r \in Responses :
        /\ held.some
        /\ Net("download", [path |-> path], held, download(held.v, headers, path, r), r)
        /\ UNCHANGED held

Upload ==
    \E path \in Paths, file \in Files, cache_control \in CacheControls,
       mime_type \in MimeTypes, upsert \in BOOLEAN, r \in Responses :
        /\ held.some
        /\ Net("upload",
               [path |-> path, file |-> file, cache_control |-> cache_control,
                mime_type |-> mime_type, upsert |-> upsert], held,
               upload(held.v, headers, path, file, cache_control, mime_type, upsert, r), r)
        /\ UNCHANGED held

Next ==
    \/ NewFile
    \/ NewBucket
    \/ ListBuckets
    \/ GetBucket
    \/ CreateBucket
    \/ EmptyBucket
    \/ DeleteBucket
    \/ GetPublicUrl
    \/ CreateSignedUrl
    \/ Delete
    \/ Empty
    \/ Move
    \/ Copy
    \/ Remove
    \/ BulkRemove
    \/ List
    \/ Download
    \/ Upload

Spec == Init /\ [][Next]_vars

(***************************************************************************)
(* DatabaseClientManager (supa/managers.py): tasks sharing one manager     *)
(***************************************************************************)
Tasks == {"t1", "t2"}
TaskToken == [t \in Tasks |-> IF t = "t1" THEN <<"jwtA">> ELSE <<"jwtB">>]

\* self._db_client.auth(token): sets the shared session's Authorization header
DbAuth(token) == Bearer(token)

\* with manager.get_client(access_token) as db:  -- the generator runs to its yield
Enter(t) ==
    /\ pc[t] # "in"
    /\ blocks[t] < MaxBlocks
    /\ auth' = DbAuth(TaskToken[t])
    /\ pc' = [pc EXCEPT ![t] = "in"]
    /\ used' = [used EXCEPT ![t] = None]
    /\ blocks' = [blocks EXCEPT ![t] = @ + 1]
    /\ UNCHANGED storageVars

\* a request through the yielded client, inside the block
DbRequest(t) ==
    /\ pc[t] = "in"
    /\ used' = [used EXCEPT ![t] = Some(auth)]
    /\ UNCHANGED <<auth, pc, blocks, storageVars>>

\* the block ends, normally or by an exception: the finally clause runs
Exit(t) ==
    \E how \in {"exited", "raised"} :
        /\ pc[t] = "in"
        /\ auth' = DbAuth(Key)
        /\ pc' = [pc EXCEPT ![t] = how]
        /\ UNCHANGED <<used, blocks, storageVars>>

NextDb ==
    \/ \E t \in Tasks : Enter(t)
    \/ \E t \in Tasks : DbRequest(t)
    \/ \E t \in Tasks : Exit(t)

SpecDb == Init /\ [][NextDb]_vars

(***************************************************************************)
(* Claims                                                                  *)
(***************************************************************************)
IsSuccess(r) == r.status \in 200..299
Sent == call.req.method # ""

\* C1: every network operation that gets a non-2xx response, whatever its body,
\* fails with a StorageError carrying the response body.
C1_NonSuccessRaisesStorageError ==
    (Sent /\ ~IsSuccess(call.resp)) =>
        /\ call.out.kind = "raise"
        /\ call.out.exc = "StorageError"
        /\ call.out.val = [json |-> call.resp.body]

\* C2: on a 2xx response create_bucket(id, name, public) returns a Bucket with the
\* id, name (id when no name is given), no owner, the public flag, both timestamps
\* equal to the call time, bound to the shared session.
C2_CreateBucketReturnsBucket ==
    (call.op = "create_bucket" /\ IsSuccess(call.resp)) =>
        /\ call.out.kind = "return"
        /\ "bucket" \in DOMAIN call.out.val
        /\ LET b == call.out.val.bucket
           IN  /\ b.id = call.args.id
               /\ b.name = (IF call.args.name.some THEN call.args.name.v ELSE call.args.id)
               /\ ~b.owner.some
               /\ b.public = call.args.public
               /\ b.created_at = [dt |-> call.args.now]
               /\ b.updated_at = [dt |-> call.args.now]
               /\ b.client = Session

TimestampFields(op) ==
    IF op = "File" THEN {"created_at", "updated_at", "last_accessed_at"}
    ELSE {"created_at", "updated_at"}

\* C3: constructing a Bucket or a File with valid ISO-8601 timestamp strings
\* succeeds and leaves every timestamp field equal to the standard parse of its
\* string; with an invalid string construction fails; no handle holds a raw string.
C3_TimestampsParsed ==
    /\ (call.op \in {"Bucket", "File"}
        /\ DOMAIN call.args = (IF call.op = "File" THEN FileFields ELSE BucketFields)) =>
          IF \A f \in TimestampFields(call.op) : IsIso(call.args[f].str)
          THEN /\ call.out.kind = "return"
               /\ LET obj == IF call.op = "File" THEN call.out.val.file
                             ELSE call.out.val.bucket
                  IN  \A f \in TimestampFields(call.op) :
                          obj[f] = [dt |-> IsoParse(call.args[f].str)]
          ELSE call.out.kind = "raise"
    /\ held.some =>
          \A f \in TimestampFields("Bucket") : "str" \notin DOMAIN held.v[f]

WellFormedFile(o) ==
    /\ DOMAIN o = FileFields
    /\ \A f \in TimestampFields("File") : "str" \in DOMAIN o[f] /\ IsIso(o[f].str)

\* C4: bulk_remove and list, on a 2xx response whose body is an array of n
\* well-formed object records, return exactly n File records in the array's order.
C4_OneFilePerRecord ==
    (/\ call.op \in {"bulk_remove", "list"}
     /\ IsSuccess(call.resp)
     /\ call.resp.body.kind = "arr"
     /\ \A i \in DOMAIN call.resp.body.a : WellFormedFile(call.resp.body.a[i])) =>
        /\ call.out.kind = "return"
        /\ "list" \in DOMAIN call.out.val
        /\ Len(call.out.val.list) = Len(call.resp.body.a)
        /\ \A i \in DOMAIN call.resp.body.a :
              /\ call.out.val.list[i].name = call.resp.body.a[i].name
              /\ call.out.val.list[i].id = call.resp.body.a[i].id

\* C5: the body list(path, options) sends is the defaults {limit: 100, offset: 0,
\* sortBy: {column: "name", order: "asc"}, prefix: path or ""} with every key of
\* options replaced by the caller's value and every other key left at its default.
C5_ListBodyMerge ==
    call.op = "list" =>
        /\ "body" \in DOMAIN call.req.json
        /\ LET body == call.req.json.body
               options == call.args.options
               path == call.args.path
           IN  /\ DOMAIN body = {"prefix", "limit", "offset", "sortBy"} \cup DOMAIN options
               /\ \A k \in DOMAIN options : body[k] = options[k]
               /\ "prefix" \notin DOMAIN options =>
                     body.prefix = (IF path.some THEN path.v ELSE << >>)
               /\ "limit" \notin DOMAIN options => body.limit = 100
               /\ "offset" \notin DOMAIN options => body.offset = 0
               /\ "sortBy" \notin DOMAIN options =>
                     body.sortBy = [column |-> <<"name">>, order |-> <<"asc">>]
               /\ (DOMAIN options = {} /\ ~path.some) =>
                     body = [prefix |-> << >>, limit |-> 100, offset |-> 0,
                             sortBy |-> [column |-> <<"name">>, order |-> <<"asc">>]]

\* C5 witness: list(options={"limit": 10}) was called and its body carries limit 10
\* beside the default offset.
C5_Witness ==
    /\ call.op = "list"
    /\ DOMAIN call.args.options = {"limit"}
    /\ call.args.options.limit = 10
    /\ call.req.json.body.limit = 10
    /\ call.req.json.body.offset = 0

\* C6: the request upload sends carries a cacheControl header equal to
\* cache_control, a content-type header equal to mime_type and an upsert header
\* equal to the upsert flag.
C6_UploadHeaders ==
    call.op = "upload" =>
        LET h == call.req.headers
        IN  /\ "cacheControl" \in DOMAIN h
            /\ h["cacheControl"] = call.args.cache_control
            /\ \/ "Content-Type" \in DOMAIN h /\ h["Content-Type"] = call.args.mime_type
               \/ "contentType" \in DOMAIN h /\ h["contentType"] = call.args.mime_type
            /\ "upsert" \in DOMAIN h
            /\ h["upsert"] = StrBool(call.args.upsert)

\* C7: get_public_url(path) returns exactly the configured storage base URL
\* followed by "/object/public/" and path, and sends no HTTP request.
C7_PublicUrl ==
    call.op = "get_public_url" =>
        /\ ~Sent
        /\ call.out =
              Return([str |-> Fmt(<<url, <<"/", "object", "/", "public", "/">>,
                                    call.args.path>>)])

ObjectPath(op, who, args) ==
    CASE op = "list" -> Fmt(<<<<"/", "object", "/", "list", "/">>, who>>)
      [] op = "download" ->
            Fmt(<<<<"/", "object", "/", "authenticated", "/">>, who, <<"/">>, args.path>>)
      [] op = "upload" -> Fmt(<<<<"/", "object", "/">>, who, <<"/">>, args.path>>)
      [] op = "remove" -> Fmt(<<<<"/", "object", "/">>, who, <<"/">>, args.path>>)
      [] op = "bulk_remove" -> Fmt(<<<<"/", "object", "/">>, who>>)
      [] op = "create_signed_url" ->
            Fmt(<<<<"/", "object", "/", "sign", "/">>, who, <<"/">>, args.path>>)
      [] op = "delete" -> Fmt(<<<<"/", "bucket", "/">>, who>>)
      [] op = "empty" -> Fmt(<<<<"/", "bucket", "/">>, who, <<"/", "empty">>>>)

C10_OwnTokenInsideBlock ==
    /\ \A t \in Tasks :
          (pc[t] = "in" /\ used[t].some) => used[t].v = Bearer(TaskToken[t])
    /\ (\A t \in Tasks : pc[t] # "in") => auth = Bearer(Key)

====
